---- MODULE Spec2Model ----
(***************************************************************************)
(* Model of the blacklister process of creekorful/trandoshan               *)
(* (internal/blacklister/blacklister.go).  Every delivery of a timeout-URL *)
(* event runs handleTimeoutURLEvent; the handler is a straight line of     *)
(* collaborator calls (config client, HTTP client, cache), and the event   *)
(* source may run several handlers at once, so each collaborator call is   *)
(* one atomic step and the local computation that follows a call belongs   *)
(* to the step of that call.                                               *)
(***************************************************************************)
EXTENDS Integers, Sequences, FiniteSets, TLC

\* ---------------------------------------------------------------- bounds
NumWorkers == 2
MaxConfirmed == 3
MaxThreshold == 2
MaxBodyLen == 2

Workers == 1..NumWorkers
Thresholds == 1..MaxThreshold

\* ------------------------------------------------------------ the inputs
Hostnames == {"a.onion", "b.onion"}

\* event.RawMessage bodies: one that subscriber.Read cannot decode, and
\* TimeoutURLEvents carrying these URLs.
Messages ==
    { [decodes |-> FALSE, URL |-> ""],
      [decodes |-> TRUE,  URL |-> "http://a.onion/x"],
      [decodes |-> TRUE,  URL |-> "https://a.onion:8080"],
      [decodes |-> TRUE,  URL |-> "http://b.onion"],
      [decodes |-> TRUE,  URL |-> "http://%zz"] }

\* url.Parse: the error result (an invalid escape in the host).
ParseFails(rawurl) == rawurl = "http://%zz"

\* (*url.URL).Hostname(): the host without scheme, port and path.
Hostname(rawurl) ==
    CASE rawurl = "http://a.onion/x"     -> "a.onion"
      [] rawurl = "https://a.onion:8080" -> "a.onion"
      [] rawurl = "http://b.onion"       -> "b.onion"

\* Outcomes of httpClient.Get: a response, chttp.ErrTimeout, another error.
ProbeOutcomes == {"nil", "ErrTimeout", "errOther"}

\* Keys of the configuration service, and request bodies: byte strings
\* written with the bytes '{' and '}'.
Keys == {"hello", "forbidden-hostnames"}
Bodies == UNION { [1..n -> {123, 125}] : n \in 0..MaxBodyLen }

VARIABLES
    cfgForbiddenHostnames,  \* config store, key forbidden-hostnames
    cfgBlackListThreshold,  \* config store, key blacklist-threshold
    hostnameCache,          \* cache "down-hostname": hostname -> count
    pc,                     \* per handler: the call it makes next
    u,                      \* per handler: u.Hostname()
    err,                    \* per handler: err of httpClient.Get
    threshold,              \* per handler: threshold.Threshold
    count,                  \* per handler: count
    forbiddenHostnames,     \* per handler: the list it is about to Set
    ret,                    \* per handler: the returned error
    calls,                  \* history: collaborator calls of the invocation
    start,                  \* history: stores when an invocation began alone
    confirmed,              \* history: confirmed timeouts per hostname
    configuration,          \* configapi: what the ConfigAPI holds per key
    rec,                    \* configapi: the response to the last request
    lastSet                 \* history: the body of the last PUT per key

apiVars == << configuration, rec, lastSet >>

vars == << cfgForbiddenHostnames, cfgBlackListThreshold, hostnameCache,
           pc, u, err, threshold, count, forbiddenHostnames, ret,
           calls, start, confirmed, configuration, rec, lastSet >>

stores == << cfgForbiddenHostnames, cfgBlackListThreshold, hostnameCache >>

InList(list, h) == \E k \in 1..Len(list) : list[k] = h

NoDuplicates(list) ==
    \A k, l \in 1..Len(list) : list[k] = list[l] => k = l

Quiet == \A i \in Workers : pc[i] = "idle"

NoSnapshot == [who |-> 0, list |-> <<>>, cache |-> [h \in Hostnames |-> 0]]

\* The collaborator call a handler at this label makes.
CallAt(label) ==
    IF label = "GetForbiddenHostnames2" THEN "GetForbiddenHostnames" ELSE label

\* The values of handler i's local variables after a step.
Locals(i, host, probe, thr, cnt, list) ==
    /\ u' = [u EXCEPT ![i] = host]
    /\ err' = [err EXCEPT ![i] = probe]
    /\ threshold' = [threshold EXCEPT ![i] = thr]
    /\ count' = [count EXCEPT ![i] = cnt]
    /\ forbiddenHostnames' = [forbiddenHostnames EXCEPT ![i] = list]

\* The handler returns e; its locals are dead from here on.
Return(i, e) ==
    /\ pc' = [pc EXCEPT ![i] = "idle"]
    /\ ret' = [ret EXCEPT ![i] = e]
    /\ Locals(i, "a.onion", "nil", 0, 0, <<>>)
    /\ calls' = [calls EXCEPT ![i] = <<>>]
    /\ start' = NoSnapshot

\* The handler goes on to its next call.  History: a step of a handler
\* other than the one that began alone ends that one's running alone.
Goto(i, label) ==
    /\ pc' = [pc EXCEPT ![i] = label]
    /\ calls' = [calls EXCEPT ![i] = Append(@, CallAt(pc[i]))]
    /\ start' = IF start.who = i THEN start ELSE NoSnapshot
    /\ UNCHANGED ret

\* ConfigAPI.Get for a key that was never set.
NotFound == [found |-> FALSE, value |-> <<>>]

Init ==
    /\ cfgForbiddenHostnames = <<>>
    /\ cfgBlackListThreshold \in Thresholds
    /\ hostnameCache = [h \in Hostnames |-> 0]
    /\ pc = [i \in Workers |-> "idle"]
    /\ u = [i \in Workers |-> "a.onion"]
    /\ err = [i \in Workers |-> "nil"]
    /\ threshold = [i \in Workers |-> 0]
    /\ count = [i \in Workers |-> 0]
    /\ forbiddenHostnames = [i \in Workers |-> <<>>]
    /\ ret = [i \in Workers |-> "none"]
    /\ calls = [i \in Workers |-> <<>>]
    /\ start = NoSnapshot
    /\ confirmed = [h \in Hostnames |-> 0]
    /\ configuration = [k \in Keys |-> NotFound]
    /\ rec = [Code |-> "none", ContentType |-> "", Body |-> <<>>]
    /\ lastSet = [k \in Keys |-> NotFound]

\* Receive with the error of url.Parse dropped: the handler goes on with the
\* zero URL.
Receive_ParseErrorDropped(i, msg) ==
    /\ pc[i] = "idle"
    /\ UNCHANGED apiVars
    /\ IF ~msg.decodes
       THEN Return(i, "errRead")
       ELSE /\ pc' = [pc EXCEPT ![i] = "GetForbiddenHostnames"]
            /\ ret' = [ret EXCEPT ![i] = "none"]
            /\ calls' = [calls EXCEPT ![i] = <<>>]
            /\ Locals(i, IF ParseFails(msg.URL) THEN "a.onion" ELSE Hostname(msg.URL),
                      "nil", 0, 0, <<>>)
            /\ start' = IF Quiet
                        THEN [who |-> i, list |-> cfgForbiddenHostnames,
                              cache |-> hostnameCache]
                        ELSE NoSnapshot
    /\ UNCHANGED << stores, confirmed >>

\* Lines 75-84: the event source hands a message to a free handler, which
\* decodes it and parses the URL.
Receive(i, msg) ==
    /\ pc[i] = "idle"
    /\ UNCHANGED apiVars
    /\ IF ~msg.decodes
       THEN Return(i, "errRead")
       ELSE IF ParseFails(msg.URL)
       THEN Return(i, "errParse")
       ELSE /\ pc' = [pc EXCEPT ![i] = "GetForbiddenHostnames"]
            /\ ret' = [ret EXCEPT ![i] = "none"]
            /\ calls' = [calls EXCEPT ![i] = <<>>]
            /\ Locals(i, Hostname(msg.URL), "nil", 0, 0, <<>>)
            /\ start' = IF Quiet
                        THEN [who |-> i, list |-> cfgForbiddenHostnames,
                              cache |-> hostnameCache]
                        ELSE NoSnapshot
    /\ UNCHANGED << stores, confirmed >>

\* GetForbiddenHostnames without the early return for a listed hostname.
GetForbiddenHostnames_NoEarlyReturn(i, ok) ==
    /\ pc[i] = "GetForbiddenHostnames"
    /\ UNCHANGED apiVars
    /\ IF ~ok
       THEN Return(i, "errConfig")
       ELSE /\ Goto(i, "Get")
            /\ UNCHANGED << u, err, threshold, count, forbiddenHostnames >>
    /\ UNCHANGED << stores, confirmed >>

\* Lines 86-103: first read of the forbidden list and the duplicate check.
GetForbiddenHostnames(i, ok) ==
    /\ pc[i] = "GetForbiddenHostnames"
    /\ UNCHANGED apiVars
    /\ IF ~ok
       THEN Return(i, "errConfig")
       ELSE IF InList(cfgForbiddenHostnames, u[i])
       THEN Return(i, "errAlreadyBlacklisted")
       ELSE /\ Goto(i, "Get")
            /\ UNCHANGED << u, err, threshold, count, forbiddenHostnames >>
    /\ UNCHANGED << stores, confirmed >>

\* Get with the test reduced to err == nil: any probe error counts as a
\* timeout.
Get_AnyErrorCounts(i, outcome) ==
    /\ pc[i] = "Get"
    /\ UNCHANGED apiVars
    /\ outcome = "ErrTimeout" => confirmed[u[i]] < MaxConfirmed
    /\ confirmed' = IF outcome = "ErrTimeout"
                    THEN [confirmed EXCEPT ![u[i]] = @ + 1]
                    ELSE confirmed
    /\ IF outcome = "nil"
       THEN Return(i, "nil")
       ELSE /\ Goto(i, "GetBlackListThreshold")
            /\ Locals(i, u[i], outcome, 0, 0, <<>>)
    /\ UNCHANGED stores

\* Lines 105-109: the confirmation probe.  History: confirmed counts the
\* probes that ended in chttp.ErrTimeout, whatever the handler makes of it.
Get(i, outcome) ==
    /\ pc[i] = "Get"
    /\ UNCHANGED apiVars
    /\ outcome = "ErrTimeout" => confirmed[u[i]] < MaxConfirmed
    /\ confirmed' = IF outcome = "ErrTimeout"
                    THEN [confirmed EXCEPT ![u[i]] = @ + 1]
                    ELSE confirmed
    /\ IF outcome = "nil" \/ outcome # "ErrTimeout"
       THEN Return(i, "nil")
       ELSE /\ Goto(i, "GetBlackListThreshold")
            /\ Locals(i, u[i], outcome, 0, 0, <<>>)
    /\ UNCHANGED stores

\* GetBlackListThreshold answering with a threshold kept in the process, the
\* largest one, instead of the stored one.
GetBlackListThreshold_Kept(i, ok) ==
    /\ pc[i] = "GetBlackListThreshold"
    /\ UNCHANGED apiVars
    /\ IF ~ok
       THEN Return(i, "errConfig")
       ELSE /\ Goto(i, "GetInt64")
            /\ Locals(i, u[i], err[i], MaxThreshold, 0, <<>>)
    /\ UNCHANGED << stores, confirmed >>

\* Lines 115-118: the threshold is read from the config store.
GetBlackListThreshold(i, ok) ==
    /\ pc[i] = "GetBlackListThreshold"
    /\ UNCHANGED apiVars
    /\ IF ~ok
       THEN Return(i, "errConfig")
       ELSE /\ Goto(i, "GetInt64")
            /\ Locals(i, u[i], err[i], cfgBlackListThreshold, 0, <<>>)
    /\ UNCHANGED << stores, confirmed >>

\* GetInt64 with count > threshold in place of count >= threshold.
GetInt64_StrictCompare(i, ok) ==
    /\ pc[i] = "GetInt64"
    /\ UNCHANGED apiVars
    /\ IF ~ok
       THEN Return(i, "errCache")
       ELSE /\ Locals(i, u[i], err[i], threshold[i], hostnameCache[u[i]] + 1, <<>>)
            /\ IF hostnameCache[u[i]] + 1 > threshold[i]
               THEN Goto(i, "GetForbiddenHostnames2")
               ELSE Goto(i, "SetInt64")
    /\ UNCHANGED << stores, confirmed >>

\* GetInt64 with the count incremented twice.
GetInt64_DoubleIncrement(i, ok) ==
    /\ pc[i] = "GetInt64"
    /\ UNCHANGED apiVars
    /\ IF ~ok
       THEN Return(i, "errCache")
       ELSE /\ Locals(i, u[i], err[i], threshold[i], hostnameCache[u[i]] + 2, <<>>)
            /\ IF hostnameCache[u[i]] + 2 >= threshold[i]
               THEN Goto(i, "GetForbiddenHostnames2")
               ELSE Goto(i, "SetInt64")
    /\ UNCHANGED << stores, confirmed >>

\* Lines 120-127: the counter is read and incremented in memory, and the
\* comparison with the threshold picks the next call.
GetInt64(i, ok) ==
    /\ pc[i] = "GetInt64"
    /\ UNCHANGED apiVars
    /\ IF ~ok
       THEN Return(i, "errCache")
       ELSE /\ Locals(i, u[i], err[i], threshold[i], hostnameCache[u[i]] + 1, <<>>)
            /\ IF hostnameCache[u[i]] + 1 >= threshold[i]
               THEN Goto(i, "GetForbiddenHostnames2")
               ELSE Goto(i, "SetInt64")
    /\ UNCHANGED << stores, confirmed >>

\* GetForbiddenHostnames2 leaving the write to a handler that is already
\* about to write the list for the same hostname.
GetForbiddenHostnames2_SingleWriter(i, ok) ==
    /\ pc[i] = "GetForbiddenHostnames2"
    /\ UNCHANGED apiVars
    /\ IF ~ok
       THEN Return(i, "errConfig")
       ELSE IF \/ InList(cfgForbiddenHostnames, u[i])
               \/ \E j \in Workers \ {i} : pc[j] = "Set" /\ u[j] = u[i]
       THEN /\ Goto(i, "SetInt64")
            /\ UNCHANGED << u, err, threshold, count, forbiddenHostnames >>
       ELSE /\ Goto(i, "Set")
            /\ Locals(i, u[i], err[i], threshold[i], count[i],
                      Append(cfgForbiddenHostnames, u[i]))
    /\ UNCHANGED << stores, confirmed >>

\* GetForbiddenHostnames2 without the second duplicate check: the hostname
\* is appended whatever the list holds.
GetForbiddenHostnames2_NoCheck(i, ok) ==
    /\ pc[i] = "GetForbiddenHostnames2"
    /\ UNCHANGED apiVars
    /\ IF ~ok
       THEN Return(i, "errConfig")
       ELSE /\ Goto(i, "Set")
            /\ Locals(i, u[i], err[i], threshold[i], count[i],
                      Append(cfgForbiddenHostnames, u[i]))
    /\ UNCHANGED << stores, confirmed >>

\* GetForbiddenHostnames2 treating a hostname found at the second read as
\* the first read does: the handler returns errAlreadyBlacklisted.
GetForbiddenHostnames2_FoundIsError(i, ok) ==
    /\ pc[i] = "GetForbiddenHostnames2"
    /\ UNCHANGED apiVars
    /\ IF ~ok
       THEN Return(i, "errConfig")
       ELSE IF InList(cfgForbiddenHostnames, u[i])
       THEN Return(i, "errAlreadyBlacklisted")
       ELSE /\ Goto(i, "Set")
            /\ Locals(i, u[i], err[i], threshold[i], count[i],
                      Append(cfgForbiddenHostnames, u[i]))
    /\ UNCHANGED << stores, confirmed >>

\* Lines 128-150: second read of the forbidden list, duplicate check and
\* the append to the local copy.
GetForbiddenHostnames2(i, ok) ==
    /\ pc[i] = "GetForbiddenHostnames2"
    /\ UNCHANGED apiVars
    /\ IF ~ok
       THEN Return(i, "errConfig")
       ELSE IF InList(cfgForbiddenHostnames, u[i])
       THEN /\ Goto(i, "SetInt64")
            /\ UNCHANGED << u, err, threshold, count, forbiddenHostnames >>
       ELSE /\ Goto(i, "Set")
            /\ Locals(i, u[i], err[i], threshold[i], count[i],
                      Append(cfgForbiddenHostnames, u[i]))
    /\ UNCHANGED << stores, confirmed >>

\* Set repeated until it succeeds.
Set_RetriedOnError(i, ok) ==
    /\ pc[i] = "Set"
    /\ UNCHANGED apiVars
    /\ IF ~ok
       THEN /\ Goto(i, "Set")
            /\ UNCHANGED << u, err, threshold, count, forbiddenHostnames >>
            /\ UNCHANGED cfgForbiddenHostnames
       ELSE /\ Goto(i, "SetInt64")
            /\ Locals(i, u[i], err[i], threshold[i], count[i], <<>>)
            /\ cfgForbiddenHostnames' = forbiddenHostnames[i]
    /\ UNCHANGED << cfgBlackListThreshold, hostnameCache, confirmed >>

\* Set with its error dropped: the handler goes on to store the counter.
Set_ErrorDropped(i, ok) ==
    /\ pc[i] = "Set"
    /\ UNCHANGED apiVars
    /\ Goto(i, "SetInt64")
    /\ Locals(i, u[i], err[i], threshold[i], count[i], <<>>)
    /\ cfgForbiddenHostnames' = IF ok THEN forbiddenHostnames[i]
                                      ELSE cfgForbiddenHostnames
    /\ UNCHANGED << cfgBlackListThreshold, hostnameCache, confirmed >>

\* Lines 151-153: the local copy replaces the stored list.
Set(i, ok) ==
    /\ pc[i] = "Set"
    /\ UNCHANGED apiVars
    /\ IF ~ok
       THEN /\ Return(i, "errConfig")
            /\ UNCHANGED cfgForbiddenHostnames
       ELSE /\ Goto(i, "SetInt64")
            /\ Locals(i, u[i], err[i], threshold[i], count[i], <<>>)
            /\ cfgForbiddenHostnames' = forbiddenHostnames[i]
    /\ UNCHANGED << cfgBlackListThreshold, hostnameCache, confirmed >>

\* SetInt64 storing the count as read, before the increment.
SetInt64_StoresOldCount(i, ok) ==
    /\ pc[i] = "SetInt64"
    /\ UNCHANGED apiVars
    /\ IF ~ok
       THEN /\ Return(i, "errCache")
            /\ UNCHANGED hostnameCache
       ELSE /\ Return(i, "nil")
            /\ hostnameCache' = [hostnameCache EXCEPT ![u[i]] = count[i] - 1]
    /\ UNCHANGED << cfgForbiddenHostnames, cfgBlackListThreshold, confirmed >>

\* Lines 157-162: the incremented count is stored, without expiry.
SetInt64(i, ok) ==
    /\ pc[i] = "SetInt64"
    /\ UNCHANGED apiVars
    /\ IF ~ok
       THEN /\ Return(i, "errCache")
            /\ UNCHANGED hostnameCache
       ELSE /\ Return(i, "nil")
            /\ hostnameCache' = [hostnameCache EXCEPT ![u[i]] = count[i]]
    /\ UNCHANGED << cfgForbiddenHostnames, cfgBlackListThreshold, confirmed >>

\* The operator changes the threshold in the config store.
SetBlackListThreshold(t) ==
    /\ t # cfgBlackListThreshold
    /\ UNCHANGED apiVars
    /\ cfgBlackListThreshold' = t
    /\ UNCHANGED << cfgForbiddenHostnames, hostnameCache, pc, u, err, threshold,
                    count, forbiddenHostnames, ret, calls, start, confirmed >>

Next ==
    \/ \E i \in Workers, msg \in Messages : Receive(i, msg)
    \/ \E i \in Workers, ok \in BOOLEAN : GetForbiddenHostnames(i, ok)
    \/ \E i \in Workers, outcome \in ProbeOutcomes : Get(i, outcome)
    \/ \E i \in Workers, ok \in BOOLEAN : GetBlackListThreshold(i, ok)
    \/ \E i \in Workers, ok \in BOOLEAN : GetInt64(i, ok)
    \/ \E i \in Workers, ok \in BOOLEAN : GetForbiddenHostnames2(i, ok)
    \/ \E i \in Workers, ok \in BOOLEAN : Set(i, ok)
    \/ \E i \in Workers, ok \in BOOLEAN : SetInt64(i, ok)
    \/ \E t \in Thresholds : SetBlackListThreshold(t)

Spec == Init /\ [][Next]_vars

\* Reports handled one at a time, a threshold that stays as configured, and
\* collaborators that do not fail.
InitSeq ==
    /\ cfgForbiddenHostnames = <<>>
    /\ cfgBlackListThreshold \in 1..MaxConfirmed
    /\ hostnameCache = [h \in Hostnames |-> 0]
    /\ pc = [i \in Workers |-> "idle"]
    /\ u = [i \in Workers |-> "a.onion"]
    /\ err = [i \in Workers |-> "nil"]
    /\ threshold = [i \in Workers |-> 0]
    /\ count = [i \in Workers |-> 0]
    /\ forbiddenHostnames = [i \in Workers |-> <<>>]
    /\ ret = [i \in Workers |-> "none"]
    /\ calls = [i \in Workers |-> <<>>]
    /\ start = NoSnapshot
    /\ confirmed = [h \in Hostnames |-> 0]
    /\ configuration = [k \in Keys |-> NotFound]
    /\ rec = [Code |-> "none", ContentType |-> "", Body |-> <<>>]
    /\ lastSet = [k \in Keys |-> NotFound]

ReceiveSeq(i, msg) == Quiet /\ Receive(i, msg)

NextSeq ==
    \/ \E i \in Workers, msg \in Messages : ReceiveSeq(i, msg)
    \/ \E i \in Workers : GetForbiddenHostnames(i, TRUE)
    \/ \E i \in Workers, outcome \in ProbeOutcomes : Get(i, outcome)
    \/ \E i \in Workers : GetBlackListThreshold(i, TRUE)
    \/ \E i \in Workers : GetInt64(i, TRUE)
    \/ \E i \in Workers : GetForbiddenHostnames2(i, TRUE)
    \/ \E i \in Workers : Set(i, TRUE)
    \/ \E i \in Workers : SetInt64(i, TRUE)

SpecSeq == InitSeq /\ [][NextSeq]_vars

\* Reports for the hostname Target keep being delivered and every probe of
\* Target times out; the threshold stays as configured and no collaborator
\* fails.  Reports for other hostnames are delivered as in Spec.  The
\* thresholds are those that the bound on confirmed timeouts lets the
\* handlers reach however many updates are lost: with t = 2 each of the
\* NumWorkers handlers that read the counter at zero can be confirmed once
\* before the next read sees 1.
Target == "a.onion"

FairThresholds ==
    { t \in Thresholds : t = 1 \/ (t = 2 /\ NumWorkers + 1 <= MaxConfirmed) }

InitFair == Init /\ cfgBlackListThreshold \in FairThresholds

ReceiveTarget(i) ==
    \E msg \in Messages :
        /\ msg.decodes
        /\ ~ParseFails(msg.URL)
        /\ Hostname(msg.URL) = Target
        /\ Receive(i, msg)

GetFair(i, outcome) ==
    /\ u[i] = Target => outcome = "ErrTimeout"
    /\ Get(i, outcome)

\* The calls of handler i, each returning without an error.
HandlerStep(i) ==
    \/ GetForbiddenHostnames(i, TRUE)
    \/ \E outcome \in ProbeOutcomes : GetFair(i, outcome)
    \/ GetBlackListThreshold(i, TRUE)
    \/ GetInt64(i, TRUE)
    \/ GetForbiddenHostnames2(i, TRUE)
    \/ Set(i, TRUE)
    \/ SetInt64(i, TRUE)

NextFair ==
    \/ \E i \in Workers, msg \in Messages : Receive(i, msg)
    \/ \E i \in Workers : HandlerStep(i)

\* Every call of a handler in flight returns, and a report for Target is
\* delivered again and again.
SpecFair ==
    /\ InitFair
    /\ [][NextFair]_vars
    /\ \A i \in Workers : WF_vars(HandlerStep(i))
    /\ SF_vars(\E i \in Workers : ReceiveTarget(i))

\* The call handler i makes next, with whatever outcome it has.
HandlerCall(i) ==
    \/ \E ok \in BOOLEAN : GetForbiddenHostnames(i, ok)
    \/ \E outcome \in ProbeOutcomes : Get(i, outcome)
    \/ \E ok \in BOOLEAN : GetBlackListThreshold(i, ok)
    \/ \E ok \in BOOLEAN : GetInt64(i, ok)
    \/ \E ok \in BOOLEAN : GetForbiddenHostnames2(i, ok)
    \/ \E ok \in BOOLEAN : Set(i, ok)
    \/ \E ok \in BOOLEAN : SetInt64(i, ok)

\* Every collaborator call of a handler in flight returns, with a value or
\* with an error.
SpecLive ==
    /\ Init
    /\ [][Next]_vars
    /\ \A i \in Workers : WF_vars(HandlerCall(i))

\* The HTTP surface of the configuration service (configapi), as its tests
\* drive it: a recorder takes the response of one request at a time.
handlerVars == << cfgForbiddenHostnames, cfgBlackListThreshold, hostnameCache,
                 pc, u, err, threshold, count, forbiddenHostnames, ret,
                 calls, start, confirmed >>

\* setConfiguration with a ConfigAPI that keeps the first value of a key.
setConfiguration_KeepsFirst(key, body) ==
    /\ configuration' = IF configuration[key].found
                        THEN configuration
                        ELSE [configuration EXCEPT
                                ![key] = [found |-> TRUE, value |-> body]]
    /\ rec' = [Code |-> "StatusOK", ContentType |-> "application/json",
               Body |-> body]
    /\ lastSet' = [lastSet EXCEPT ![key] = [found |-> TRUE, value |-> body]]
    /\ UNCHANGED handlerVars

\* PUT /config/{key}: the body goes to ConfigAPI.Set and back to the client.
setConfiguration(key, body) ==
    /\ configuration' = [configuration EXCEPT
                           ![key] = [found |-> TRUE, value |-> body]]
    /\ rec' = [Code |-> "StatusOK", ContentType |-> "application/json",
               Body |-> body]
    /\ lastSet' = [lastSet EXCEPT ![key] = [found |-> TRUE, value |-> body]]
    /\ UNCHANGED handlerVars

\* GET /config/{key}: what ConfigAPI.Get returns goes to the client.
getConfiguration(key) ==
    /\ rec' = IF configuration[key].found
              THEN [Code |-> "StatusOK", ContentType |-> "application/json",
                    Body |-> configuration[key].value]
              ELSE [Code |-> "error", ContentType |-> "", Body |-> <<>>]
    /\ UNCHANGED << configuration, lastSet >>
    /\ UNCHANGED handlerVars

NextApi ==
    \/ \E key \in Keys, body \in Bodies : setConfiguration(key, body)
    \/ \E key \in Keys : getConfiguration(key)

SpecApi == Init /\ [][NextApi]_vars

TypeOK ==
    /\ cfgBlackListThreshold \in 1..MaxConfirmed
    /\ \A h \in Hostnames : hostnameCache[h] \in 0..MaxConfirmed
    /\ \A h \in Hostnames : confirmed[h] \in 0..MaxConfirmed
    /\ \A i \in Workers : u[i] \in Hostnames
    /\ \A i \in Workers : pc[i] = "idle" => calls[i] = <<>>
    /\ \A i \in Workers : pc[i] # "idle" => ret[i] = "none"

\* ------------------------------------------------------------- the claims

\* C1: the persisted forbidden-hostname list never holds the same hostname
\* twice, whatever the number of invocations and the interleaving of their
\* collaborator calls.
C1_NoDuplicateHostname == NoDuplicates(cfgForbiddenHostnames)

\* Two handlers for the same hostname have both passed the second check and
\* both written the list.
C1_Witness ==
    \E i, j \in Workers :
        /\ i # j
        /\ pc[i] = "SetInt64" /\ pc[j] = "SetInt64"
        /\ u[i] = u[j]
        /\ InList(calls[i], "Set") /\ InList(calls[j], "Set")
        /\ InList(cfgForbiddenHostnames, u[i])

\* C2: when the hostname is in the list that the first read returns, the
\* invocation returns errAlreadyBlacklisted from that very call: it has made
\* no call before it, makes none after it, and leaves the list, the threshold
\* and the counters as they are.
C2_AlreadyBlacklistedNoEffect ==
    [][\A i \in Workers :
         GetForbiddenHostnames(i, TRUE) /\ InList(cfgForbiddenHostnames, u[i])
         => /\ ret'[i] = "errAlreadyBlacklisted"
            /\ pc'[i] = "idle"
            /\ calls[i] = <<>>
            /\ stores' = stores
            /\ confirmed' = confirmed]_vars

C2_Witness ==
    \E i \in Workers :
        /\ ret[i] = "errAlreadyBlacklisted"
        /\ cfgForbiddenHostnames # <<>>

\* C3: a probe that does not end in the timeout sentinel makes the invocation
\* return nil at once: the only call before the probe was the list read, no
\* threshold or counter read follows, and the counters and the list are left
\* as they are.
C3_UnconfirmedNoEffect ==
    [][\A i \in Workers, outcome \in ProbeOutcomes \ {"ErrTimeout"} :
         Get(i, outcome)
         => /\ ret'[i] = "nil"
            /\ pc'[i] = "idle"
            /\ calls[i] = <<"GetForbiddenHostnames">>
            /\ hostnameCache' = hostnameCache
            /\ cfgForbiddenHostnames' = cfgForbiddenHostnames]_vars

\* A handler has returned nil although no probe has ever timed out.
C3_Witness ==
    \E i \in Workers :
        /\ ret[i] = "nil"
        /\ \A h \in Hostnames : confirmed[h] = 0

\* C4: an invocation that ran with no other invocation interleaved, for a
\* hostname that was absent from the list and whose counter was one below
\* the threshold the invocation read, and that returns nil after a confirmed
\* timeout, leaves the list as it was plus the hostname at the end, and the
\* hostname's counter at the threshold, the other counters untouched.
C4_PromotionAtThreshold ==
    [][\A i \in Workers :
         /\ SetInt64(i, TRUE)
         /\ start.who = i
         /\ ~InList(start.list, u[i])
         /\ start.cache[u[i]] = threshold[i] - 1
         => /\ ret'[i] = "nil"
            /\ cfgForbiddenHostnames' = Append(start.list, u[i])
            /\ hostnameCache' = [start.cache EXCEPT ![u[i]] = threshold[i]]]_vars

\* The promoting invocation is about to store the counter: it began alone
\* with the counter one below the threshold and has written the list.
C4_Witness ==
    \E i \in Workers :
        /\ pc[i] = "SetInt64"
        /\ start.who = i
        /\ threshold[i] = 2
        /\ start.cache[u[i]] = 1
        /\ start.list = <<"b.onion">>
        /\ cfgForbiddenHostnames = <<"b.onion", "a.onion">>

\* C5: with reports handled one at a time and a fixed threshold T, every
\* confirmed-timeout report returns nil and raises the hostname's counter by
\* one, to the number of timeouts confirmed so far (1, 2, ..., T); the
\* hostname is in the list after that report exactly when the counter has
\* reached T; and a report for a listed hostname returns
\* errAlreadyBlacklisted with the counter still T.
C5_CounterProgression ==
    [][\A i \in Workers :
         /\ SetInt64(i, TRUE)
            => /\ ret'[i] = "nil"
               /\ hostnameCache'[u[i]] = hostnameCache[u[i]] + 1
               /\ hostnameCache'[u[i]] = confirmed[u[i]]
               /\ hostnameCache'[u[i]] <= cfgBlackListThreshold
               /\ InList(cfgForbiddenHostnames', u[i])
                    <=> hostnameCache'[u[i]] = cfgBlackListThreshold
         /\ GetForbiddenHostnames(i, TRUE) /\ InList(cfgForbiddenHostnames, u[i])
            => /\ ret'[i] = "errAlreadyBlacklisted"
               /\ hostnameCache'[u[i]] = cfgBlackListThreshold
         /\ GetForbiddenHostnames(i, TRUE) /\ ~InList(cfgForbiddenHostnames, u[i])
            => hostnameCache[u[i]] < cfgBlackListThreshold]_vars

\* The spec's case: threshold 3, the counter went to 3, the hostname is
\* listed once, and a fourth report was turned away.
C5_Witness ==
    /\ cfgBlackListThreshold = 3
    /\ hostnameCache["a.onion"] = 3
    /\ confirmed["a.onion"] = 3
    /\ cfgForbiddenHostnames = <<"a.onion">>
    /\ \E i \in Workers : ret[i] = "errAlreadyBlacklisted"

\* C6: the counter race can only under-count.  The stored counter of a
\* hostname never exceeds the number of probes of it that ended in the
\* timeout sentinel; the stored list changes only by a handler's Set; and a
\* handler that performs Set has had its probe time out and holds a count
\* that is at least the threshold it read and at most the number of
\* confirmed timeouts of the hostname.
C6_OnlyUnderCount ==
    [][/\ \A h \in Hostnames : hostnameCache'[h] <= confirmed'[h]
       /\ cfgForbiddenHostnames' # cfgForbiddenHostnames
            => \E i \in Workers : Set(i, TRUE)
       /\ \A i \in Workers :
            Set(i, TRUE)
            => /\ err[i] = "ErrTimeout"
               /\ count[i] >= threshold[i]
               /\ confirmed[u[i]] >= count[i]
               /\ cfgForbiddenHostnames' = forbiddenHostnames[i]
               /\ InList(cfgForbiddenHostnames', u[i])]_vars

\* Two handlers for one hostname have read the same counter value and are
\* both about to store the same incremented count.
C6_Witness ==
    \E i, j \in Workers :
        /\ i # j
        /\ pc[i] = "SetInt64" /\ pc[j] = "SetInt64"
        /\ u[i] = u[j]
        /\ count[i] = count[j]
        /\ confirmed[u[i]] > count[i]

\* C7: a hostname that is in the stored list before a step is still in it
\* after the step, under any interleaving of the handlers.
C7_ListOnlyGrows ==
    [][\A h \in Hostnames :
         InList(cfgForbiddenHostnames, h) => InList(cfgForbiddenHostnames', h)]_vars

\* C8: no step lowers the stored counter of a hostname, under any
\* interleaving of the handlers.
C8_CounterNeverDecremented ==
    [][\A h \in Hostnames : hostnameCache'[h] >= hostnameCache[h]]_vars

\* C9: a report whose URL does not parse makes the invocation return the
\* parse error without a single collaborator call: the list, the threshold
\* and the counters are left as they are and no probe is made.
C9_MalformedURLNoEffect ==
    [][\A i \in Workers, msg \in Messages :
         Receive(i, msg) /\ msg.decodes /\ ParseFails(msg.URL)
         => /\ ret'[i] = "errParse"
            /\ pc'[i] = "idle"
            /\ calls'[i] = <<>>
            /\ stores' = stores
            /\ confirmed' = confirmed]_vars

C9_Witness == \E i \in Workers : ret[i] = "errParse"

\* Handler i returns e from the call it is making, and the call has changed
\* no store.
FailsWith(i, e) ==
    /\ ret'[i] = e
    /\ pc'[i] = "idle"
    /\ stores' = stores

\* C10: a failing config-client or cache call ends the invocation with that
\* error and without a store write, that call's or a later one.  For an
\* invocation that ran alone: when the promoting list write fails, the list
\* and the counters are as they were when it began, and so they are when
\* the counter write of a count below the threshold fails.
C10_ErrorsReturned ==
    [][\A i \in Workers :
         /\ GetForbiddenHostnames(i, FALSE) => FailsWith(i, "errConfig")
         /\ GetBlackListThreshold(i, FALSE) => FailsWith(i, "errConfig")
         /\ GetInt64(i, FALSE) => FailsWith(i, "errCache")
         /\ GetForbiddenHostnames2(i, FALSE) => FailsWith(i, "errConfig")
         /\ Set(i, FALSE)
            => /\ FailsWith(i, "errConfig")
               /\ start.who = i
                    => /\ cfgForbiddenHostnames' = start.list
                       /\ hostnameCache' = start.cache
         /\ SetInt64(i, FALSE)
            => /\ FailsWith(i, "errCache")
               /\ start.who = i /\ count[i] < threshold[i]
                    => /\ cfgForbiddenHostnames' = start.list
                       /\ hostnameCache' = start.cache]_vars

\* A timeout was confirmed at threshold 1, and the invocation ended with a
\* config error: nothing was listed and nothing was counted.
C10_Witness ==
    /\ Quiet
    /\ cfgBlackListThreshold = 1
    /\ confirmed["a.onion"] = 1
    /\ hostnameCache["a.onion"] = 0
    /\ cfgForbiddenHostnames = <<>>
    /\ \E i \in Workers : ret[i] = "errConfig"

\* C11: the configuration service passes values through unchanged and the
\* last write wins.  A PUT stores its body for the key, leaves the other
\* keys alone and answers 200 with the same body; a GET of a key that was
\* set answers 200 with the body of the last PUT of that key and changes
\* nothing.
C11_ConfigRoundTrip ==
    [][/\ \A key \in Keys, body \in Bodies :
            setConfiguration(key, body)
            => /\ configuration'[key] = [found |-> TRUE, value |-> body]
               /\ \A k \in Keys \ {key} : configuration'[k] = configuration[k]
               /\ rec' = [Code |-> "StatusOK",
                          ContentType |-> "application/json", Body |-> body]
       /\ \A key \in Keys :
            getConfiguration(key) /\ lastSet[key].found
            => /\ rec' = [Code |-> "StatusOK",
                          ContentType |-> "application/json",
                          Body |-> lastSet[key].value]
               /\ configuration' = configuration]_vars

\* Both keys hold different bodies and the last response carries the two
\* bytes stored for hello.
C11_Witness ==
    /\ configuration["hello"] = [found |-> TRUE, value |-> <<123, 125>>]
    /\ configuration["forbidden-hostnames"] = [found |-> TRUE, value |-> <<125>>]
    /\ rec = [Code |-> "StatusOK", ContentType |-> "application/json",
              Body |-> <<123, 125>>]

\* C12: the second list check does not make the promotion single-writer.
\* Whether a handler goes on to write the list is decided by the list it
\* reads alone, also while another handler is about to write the same
\* hostname, and every handler that got that far writes its copy; the
\* witness is the interleaving in which two handlers for one hostname both
\* write.
C12_SecondCheckNotExclusive ==
    [][\A i \in Workers :
         /\ GetForbiddenHostnames2(i, TRUE)
            => (pc'[i] = "Set" <=> ~InList(cfgForbiddenHostnames, u[i]))
         /\ Set(i, TRUE)
            => cfgForbiddenHostnames' = forbiddenHostnames[i]]_vars

\* Two handlers for one hostname confirmed the timeout, computed a count at
\* or above the threshold, found the hostname absent at the second read and
\* have both written the list.
C12_Witness ==
    \E i, j \in Workers :
        /\ i # j
        /\ u[i] = u[j]
        /\ err[i] = "ErrTimeout" /\ err[j] = "ErrTimeout"
        /\ count[i] >= threshold[i] /\ count[j] >= threshold[j]
        /\ calls[i] = << "GetForbiddenHostnames", "Get", "GetBlackListThreshold",
                         "GetInt64", "GetForbiddenHostnames", "Set" >>
        /\ calls[j] = calls[i]
        /\ cfgForbiddenHostnames = << u[i] >>

\* C13: lost counter updates only delay the promotion.  When reports for a
\* hostname keep being delivered and each is confirmed as a timeout, the
\* threshold is fixed, no collaborator fails and every handler in flight
\* keeps taking its steps, the hostname is eventually in the forbidden list.
C13_EventuallyBlacklisted == <>InList(cfgForbiddenHostnames, Target)

\* Target is listed at threshold 2 after three confirmed timeouts: one
\* counter update was lost on the way.
C13_Witness ==
    /\ cfgBlackListThreshold = 2
    /\ confirmed[Target] = 3
    /\ hostnameCache[Target] = 1
    /\ InList(cfgForbiddenHostnames, Target)

\* C14: every decision uses the threshold that is in the config store when
\* the invocation reads it.  The threshold read sets the handler's threshold
\* to the stored value of that moment; the counter read then sends the
\* handler to the promotion path exactly when the stored count plus one is
\* at least that threshold; and a handler on the promotion path holds a
\* count at or above the threshold it read, a handler that skipped the path
\* a count below it.
C14_ThresholdReadFresh ==
    [][\A i \in Workers :
         /\ GetBlackListThreshold(i, TRUE)
            => threshold'[i] = cfgBlackListThreshold
         /\ GetInt64(i, TRUE)
            => /\ count'[i] = hostnameCache[u[i]] + 1
               /\ threshold'[i] = threshold[i]
               /\ pc'[i] = "GetForbiddenHostnames2"
                    <=> hostnameCache[u[i]] + 1 >= threshold[i]
               /\ pc'[i] = "SetInt64"
                    <=> hostnameCache[u[i]] + 1 < threshold[i]
         /\ pc[i] \in {"GetForbiddenHostnames2", "Set"}
            => count[i] >= threshold[i]]_vars

\* The threshold was lowered between two reports.  The first report for the
\* hostname was counted without a promotion, which only a threshold of 2
\* allows (the list is empty and the other hostname never timed out); the
\* invocation of the second report ran alone, read a threshold of 1 and is
\* on the promotion path with a count of 2.
C14_Witness ==
    \E i \in Workers :
        /\ pc[i] = "GetForbiddenHostnames2"
        /\ start.who = i
        /\ start.cache[u[i]] = 1
        /\ start.list = <<>>
        /\ threshold[i] = 1
        /\ count[i] = 2
        /\ \A h \in Hostnames \ {u[i]} : confirmed[h] = 0

\* C15: a handler whose count is at or above its threshold and whose second
\* list read holds the hostname writes nothing to the list and goes on to
\* the counter write with its count as it is; the counter write stores that
\* count and the handler returns nil, not errAlreadyBlacklisted.  The stored
\* counter of a listed hostname can so exceed the threshold.
C15_SecondReadFoundSkipsWrite ==
    [][\A i \in Workers :
         /\ GetForbiddenHostnames2(i, TRUE) /\ InList(cfgForbiddenHostnames, u[i])
            => /\ count[i] >= threshold[i]
               /\ pc'[i] = "SetInt64"
               /\ count'[i] = count[i]
               /\ stores' = stores
         /\ SetInt64(i, TRUE)
            => /\ ret'[i] = "nil"
               /\ hostnameCache'[u[i]] = count[i]
               /\ cfgForbiddenHostnames' = cfgForbiddenHostnames]_vars

\* A listed hostname whose stored counter is above every threshold, after a
\* handler returned nil; the other hostname never timed out, so the list
\* was written for this hostname only, and the counter went past the
\* threshold by a handler that found the hostname at its second read.
C15_Witness ==
    \E h \in Hostnames :
        /\ cfgForbiddenHostnames = << h >>
        /\ hostnameCache[h] > MaxThreshold
        /\ \A g \in Hostnames \ {h} : confirmed[g] = 0
        /\ \E i \in Workers : ret[i] = "nil"

\* Hostname h is listed with a stored counter below the threshold, as an
\* invocation that stopped between its two writes leaves it, and no handler
\* in flight for h has got past its first list read: what happens to h from
\* here on is up to later reports.
Settled(h) ==
    /\ InList(cfgForbiddenHostnames, h)
    /\ hostnameCache[h] < cfgBlackListThreshold
    /\ \A j \in Workers :
         pc[j] \notin {"idle", "GetForbiddenHostnames"} => u[j] # h

\* C16, first part: the list write comes before the counter write of the
\* same invocation.  The Set leaves the counters alone and hands over to the
\* counter write, which no handler has made before its Set.
C16_ListWriteFirst ==
    [][\A i \in Workers :
         Set(i, TRUE)
         => /\ ~InList(calls[i], "SetInt64")
            /\ pc'[i] = "SetInt64"
            /\ InList(cfgForbiddenHostnames', u[i])
            /\ hostnameCache' = hostnameCache]_vars

\* C16, second part: when the counter write fails after the list write of
\* an invocation that ran alone and found the counter below its threshold,
\* the hostname is listed and its counter is where it was, below the
\* threshold.
C16_StoppedBetween ==
    [][\A i \in Workers :
         /\ SetInt64(i, FALSE)
         /\ InList(calls[i], "Set")
         /\ start.who = i
         /\ start.cache[u[i]] < threshold[i]
         => /\ InList(cfgForbiddenHostnames', u[i])
            /\ hostnameCache'[u[i]] = start.cache[u[i]]
            /\ hostnameCache'[u[i]] < threshold[i]]_vars

\* C16: the list write comes before the counter write; an invocation that
\* stops between the two leaves the hostname listed with its counter below
\* the threshold; and from then on every report for the hostname returns
\* errAlreadyBlacklisted, the hostname stays in the list and its counter
\* stays as it is.
C16_ListedThenTurnedAway ==
    [][/\ \A i \in Workers :
            Set(i, TRUE)
            => /\ ~InList(calls[i], "SetInt64")
               /\ pc'[i] = "SetInt64"
               /\ hostnameCache' = hostnameCache
       /\ \A i \in Workers :
            /\ SetInt64(i, FALSE)
            /\ InList(calls[i], "Set")
            /\ start.who = i
            /\ start.cache[u[i]] < threshold[i]
            => /\ InList(cfgForbiddenHostnames', u[i])
               /\ hostnameCache'[u[i]] < threshold[i]
       /\ \A h \in Hostnames :
            Settled(h)
            => /\ InList(cfgForbiddenHostnames', h)
               /\ hostnameCache'[h] = hostnameCache[h]
               /\ \A j \in Workers :
                    GetForbiddenHostnames(j, TRUE) /\ u[j] = h
                    => ret'[j] = "errAlreadyBlacklisted"]_vars

\* C16, third part without the list: the counter of a settled hostname
\* stays as it is and a report for it is turned away while it is listed.
C16_SettledCounterKept ==
    [][\A h \in Hostnames :
         Settled(h)
         => /\ hostnameCache'[h] = hostnameCache[h]
            /\ \A j \in Workers :
                 GetForbiddenHostnames(j, TRUE) /\ u[j] = h
                 => ret'[j] = "errAlreadyBlacklisted"]_vars

\* C17 as stated: with reports handled one at a time, a fixed threshold and
\* no collaborator errors, between invocations a hostname is listed exactly
\* when its stored counter has reached the threshold, no counter exceeds the
\* threshold, and in no state is a hostname listed with its counter below
\* the threshold.
C17_NeverListedBelowThreshold ==
    /\ Quiet
         => \A h \in Hostnames :
              InList(cfgForbiddenHostnames, h)
                <=> hostnameCache[h] >= cfgBlackListThreshold
    /\ \A h \in Hostnames : hostnameCache[h] <= cfgBlackListThreshold
    /\ \A h \in Hostnames :
         InList(cfgForbiddenHostnames, h)
         => hostnameCache[h] >= cfgBlackListThreshold

\* C17, amended: with reports handled one at a time, a fixed threshold and
\* no collaborator errors, between invocations a hostname is listed exactly
\* when its stored counter has reached the threshold, and no counter ever
\* exceeds the threshold.  A hostname is listed with its counter below the
\* threshold only while the invocation that promotes it is between its
\* list write and its counter write, holding the count that reaches the
\* threshold.
C17_ListedIffCountedWhenQuiet ==
    /\ Quiet
         => \A h \in Hostnames :
              InList(cfgForbiddenHostnames, h)
                <=> hostnameCache[h] >= cfgBlackListThreshold
    /\ \A h \in Hostnames : hostnameCache[h] <= cfgBlackListThreshold
    /\ \A h \in Hostnames :
         InList(cfgForbiddenHostnames, h) /\ hostnameCache[h] < cfgBlackListThreshold
         => \E i \in Workers :
              /\ pc[i] = "SetInt64"
              /\ u[i] = h
              /\ InList(calls[i], "Set")
              /\ count[i] = cfgBlackListThreshold
              /\ hostnameCache[h] = count[i] - 1

\* Between invocations at threshold 2: one hostname was reported twice and
\* is listed, the other was reported once and is not.
C17_Witness ==
    /\ Quiet
    /\ cfgBlackListThreshold = 2
    /\ hostnameCache = [h \in Hostnames |-> IF h = "a.onion" THEN 2 ELSE 1]
    /\ cfgForbiddenHostnames = << "a.onion" >>
    /\ \A i \in Workers : ret[i] = "nil"

\* How often the collaborator call c is in the history of calls.
Count(history, c) == Cardinality({ k \in 1..Len(history) : history[k] = c })

\* How often one invocation may make the collaborator call c.
Limit(c) == IF c = "GetForbiddenHostnames" THEN 2 ELSE 1

\* C18: every invocation terminates.  A handler in flight can always make
\* its next call, whatever the other handlers do; with that call it stays
\* within two list reads and one probe, threshold read, counter read, list
\* write and counter write; a handler that stops being in flight has
\* returned nil or an error; and when every call returns, no handler stays
\* in flight for ever.
C18_InvocationTerminates ==
    /\ [](\A i \in Workers :
            pc[i] # "idle"
            => /\ ENABLED HandlerCall(i)
               /\ Count(calls[i], CallAt(pc[i])) < Limit(CallAt(pc[i]))
               /\ \A c \in { calls[i][k] : k \in 1..Len(calls[i]) } :
                    Count(calls[i], c) <= Limit(c))
    /\ [][\A i \in Workers :
           pc[i] # "idle" /\ pc'[i] = "idle" => ret'[i] # "none"]_vars
    /\ \A i \in Workers : []<>(pc[i] = "idle")

\* One handler has made every call but the last, the counter write, and the
\* other has returned with an error.
C18_Witness ==
    \E i, j \in Workers :
        /\ pc[i] = "SetInt64"
        /\ calls[i] = << "GetForbiddenHostnames", "Get", "GetBlackListThreshold",
                         "GetInt64", "GetForbiddenHostnames", "Set" >>
        /\ pc[j] = "idle"
        /\ ret[j] \in {"errConfig", "errCache"}
====
